---- MODULE Spec2Model ----
(***************************************************************************)
(* Model of kernel/src/servers.rs: spawn_server, the supervising task it   *)
(* spawns, ServerHandle::send / send_sync, and the bounded tokio mpsc      *)
(* channels it uses (the message channel and the optional error sink).     *)
(***************************************************************************)
EXTENDS Integers, Sequences, FiniteSets, TLC

\* mpsc::channel::<M>(32)
Capacity == 32

\* Bounds of the model.
NumProducers == 2   \* callers holding (or later given) a sender endpoint
Extra == 2          \* send calls beyond Capacity that callers may issue
SinkCap == 1        \* capacity the caller gave the error sink channel
MaxFail == 1        \* process calls that may return Err
MaxWorkers == 2     \* worker threads of the runtime, with two services on it
TwoMsgs == 2        \* messages sent to each service, with two services

MaxMsgs == Capacity + Extra
Producers == 1..NumProducers

\* Results are records of one shape: Ok(()), "nothing yet", or an Err value.
Result(kind, reason, id) == [kind |-> kind, reason |-> reason, id |-> id]
Ok == Result("Ok", "", "")
NoErr == Result("none", "", "")

\* enum ServerError: the values a service may return in Err(..).
StartError(reason, id) == Result("StartError", reason, id)
RuntimeError(reason) == Result("RuntimeError", reason, "")
ClientError(reason) == Result("ClientError", reason, "")

\* Err values Server::start may return.
StartErrs == {StartError("bind", "http"), RuntimeError("poisoned")}
\* Err values Server::process may return.
ProcErrs == {ClientError("russh")}

\* A report written to the sink by another holder of the shared Sender.
OtherReport == ClientError("russh")

VARIABLES
    pc,          \* position of the spawned task: start, recv, process, report, done
    startRes,    \* result of server.start(): NoErr before it returned
    cur,         \* the error e the task is sending to err_sender, or NoErr
    queue,       \* messages buffered in the mpsc channel (receiver side)
    senders,     \* live Sender<M> endpoints of the channel
    handle,      \* per producer: none, live, send, send_sync, dropped
    pending,     \* per producer: the message of its suspended send (0: none)
    waiters,     \* producers suspended on a full channel, in arrival order
    nsent,       \* send calls issued so far; message ids are 1..nsent
    err_sender,  \* TRUE: Some(err_sender), FALSE: None
    sinkQ,       \* reports buffered in the error sink
    sinkClosed,  \* the sink's receiver has been dropped
    enqueued,    \* history: messages in the order they entered the channel
    processed,   \* history: messages in the order they were passed to process
    sendOk,      \* history: messages whose send returned Ok(())
    sendErr,     \* history: messages whose send returned a channel error
    reported,    \* history: reports of this task that entered the sink
    dropped,     \* history: number of reports of this task that were discarded
    nfail,       \* history: number of process calls that returned Err
    nstart,      \* history: number of server.start() calls
    nstop,       \* history: number of server.stop() calls
    workers,     \* worker threads of the runtime that polls the spawned tasks
    other        \* a second service spawned on the same runtime (or none)

vars == <<pc, startRes, cur, queue, senders, handle, pending, waiters, nsent,
          err_sender, sinkQ, sinkClosed, enqueued, processed, sendOk, sendErr,
          reported, dropped, nfail, nstart, nstop, workers, other>>

taskVars == <<pc, startRes, cur, processed, nfail, nstart, nstop>>
envVars == <<err_sender, workers, other>>
chanVars == <<queue, senders, handle, pending, waiters, nsent, enqueued, sendOk, sendErr>>
sinkVars == <<sinkQ, sinkClosed, reported, dropped>>

Range(s) == {s[i] : i \in 1..Len(s)}

IsPrefix(s, t) == Len(s) <= Len(t) /\ \A i \in 1..Len(s) : s[i] = t[i]

\* Variant: a receiver that outlives the task.
receiverAlive_always == TRUE

\* The receiver is owned by the spawned task and dropped when the task ends.
receiverAlive == pc # "done"

\* Variant: a handle that is handed out only after start has returned.
SpawnedHandle_deferred(p) == "none"

\* Ok(ServerHandle::new(sender)): the caller (producer 1) holds the handle as
\* soon as spawn_server has returned, whatever start does later.
SpawnedHandle(p) == IF p = 1 THEN "live" ELSE "none"

\* No second service.
NoService == [pc |-> "none", queue |-> <<>>, nsent |-> 0, processed |-> <<>>,
              handle |-> "none"]

\* spawn_server: channel allocated, task spawned, one handle returned.
InitService ==
    /\ pc = "start"
    /\ startRes = NoErr
    /\ cur = NoErr
    /\ queue = <<>>
    /\ senders = 1
    /\ handle = [p \in Producers |-> SpawnedHandle(p)]
    /\ pending = [p \in Producers |-> 0]
    /\ waiters = <<>>
    /\ nsent = 0
    /\ err_sender \in BOOLEAN
    /\ sinkQ = <<>>
    /\ sinkClosed = FALSE
    /\ enqueued = <<>>
    /\ processed = <<>>
    /\ sendOk = {}
    /\ sendErr = {}
    /\ reported = <<>>
    /\ dropped = 0
    /\ nfail = 0
    /\ nstart = 0
    /\ nstop = 0

\* One service on the runtime.
Init ==
    /\ InitService
    /\ workers = 1
    /\ other = NoService

(***************************************************************************)
(* The channel: tokio::sync::mpsc, bounded, permits handed out in arrival  *)
(* order.                                                                  *)
(***************************************************************************)

\* Variant: a channel that admits one message more than its capacity.
HasCapacity_plus_one == Len(queue) <= Capacity

\* A permit is free: fewer than Capacity messages are buffered.
HasCapacity == Len(queue) < Capacity

\* Sender::send / blocking_send on a live channel: the message enters the
\* queue at once when a permit is free and no earlier sender is waiting;
\* otherwise the caller is suspended, state `blocked`, holding `clones`
\* additional Sender endpoints while it waits.
Enqueue(p, m, blocked, clones) ==
    IF HasCapacity /\ waiters = <<>>
    THEN /\ queue' = Append(queue, m)
         /\ enqueued' = Append(enqueued, m)
         /\ sendOk' = sendOk \cup {m}
         /\ UNCHANGED <<handle, pending, waiters, senders, sendErr>>
    ELSE /\ handle' = [handle EXCEPT ![p] = blocked]
         /\ pending' = [pending EXCEPT ![p] = m]
         /\ waiters' = Append(waiters, p)
         /\ senders' = senders + clones
         /\ UNCHANGED <<queue, enqueued, sendOk, sendErr>>

\* Variant: a send that returns the SendError and leaves its message in the
\* queue all the same.
Rejected_enqueues(m) ==
    /\ sendErr' = sendErr \cup {m}
    /\ queue' = Append(queue, m)
    /\ UNCHANGED <<enqueued, sendOk, handle, pending, waiters, senders>>

\* Variant: a send that swallows the SendError and reports Ok(()).
Rejected_swallowed(m) ==
    /\ sendOk' = sendOk \cup {m}
    /\ UNCHANGED <<queue, enqueued, sendErr, handle, pending, waiters, senders>>

\* Sender::send / blocking_send after the receiver is gone: SendError.
Rejected(m) ==
    /\ sendErr' = sendErr \cup {m}
    /\ UNCHANGED <<queue, enqueued, sendOk, handle, pending, waiters, senders>>

\* ServerHandle::send
send(p) ==
    /\ handle[p] = "live"
    /\ nsent < MaxMsgs
    /\ nsent' = nsent + 1
    /\ IF receiverAlive THEN Enqueue(p, nsent + 1, "send", 0) ELSE Rejected(nsent + 1)
    /\ UNCHANGED <<taskVars, envVars, sinkVars>>

\* ServerHandle::send_sync: clones the sender, blocking_send on the clone,
\* the clone is dropped when the closure returns.
send_sync(p) ==
    /\ handle[p] = "live"
    /\ nsent < MaxMsgs
    /\ nsent' = nsent + 1
    /\ IF receiverAlive THEN Enqueue(p, nsent + 1, "send_sync", 1) ELSE Rejected(nsent + 1)
    /\ UNCHANGED <<taskVars, envVars, sinkVars>>

\* Variant: a send_sync whose clone of the sender outlives the call.
ClonesOf_leaked(p) == 0

\* Endpoints a suspended call gives back when it returns.
ClonesOf(p) == IF handle[p] = "send_sync" THEN 1 ELSE 0

\* A suspended send is granted the permit freed by the receiver.
send_resume(p) ==
    /\ handle[p] \in {"send", "send_sync"}
    /\ waiters # <<>> /\ Head(waiters) = p
    /\ receiverAlive
    /\ HasCapacity
    /\ queue' = Append(queue, pending[p])
    /\ enqueued' = Append(enqueued, pending[p])
    /\ sendOk' = sendOk \cup {pending[p]}
    /\ waiters' = Tail(waiters)
    /\ handle' = [handle EXCEPT ![p] = "live"]
    /\ pending' = [pending EXCEPT ![p] = 0]
    /\ senders' = senders - ClonesOf(p)
    /\ UNCHANGED <<nsent, sendErr, taskVars, envVars, sinkVars>>

\* A suspended send is woken because the receiver was dropped: SendError.
send_closed(p) ==
    /\ handle[p] \in {"send", "send_sync"}
    /\ ~receiverAlive
    /\ sendErr' = sendErr \cup {pending[p]}
    /\ waiters' = SelectSeq(waiters, LAMBDA q : q # p)
    /\ handle' = [handle EXCEPT ![p] = "live"]
    /\ pending' = [pending EXCEPT ![p] = 0]
    /\ senders' = senders - ClonesOf(p)
    /\ UNCHANGED <<queue, enqueued, sendOk, nsent, taskVars, envVars, sinkVars>>

\* ServerHandle::new on a clone of the sender, given to another producer
\* (the first one that holds no handle yet).
clone_handle(p, q) ==
    /\ handle[p] = "live"
    /\ handle[q] = "none"
    /\ \A r \in Producers : handle[r] = "none" => q <= r
    /\ handle' = [handle EXCEPT ![q] = "live"]
    /\ senders' = senders + 1
    /\ UNCHANGED <<queue, pending, waiters, nsent, enqueued, sendOk, sendErr,
                   taskVars, envVars, sinkVars>>

\* A ServerHandle goes out of scope: its Sender endpoint is dropped.
drop_handle(p) ==
    /\ handle[p] = "live"
    /\ handle' = [handle EXCEPT ![p] = "dropped"]
    /\ senders' = senders - 1
    /\ UNCHANGED <<queue, pending, waiters, nsent, enqueued, sendOk, sendErr,
                   taskVars, envVars, sinkVars>>

(***************************************************************************)
(* The spawned task of spawn_server.                                       *)
(***************************************************************************)

\* Variant: a task that calls server.stop() before it returns.
StopCalls_on_exit(next) == IF next = "done" THEN 1 ELSE 0

\* server.stop() calls the task makes on its way to position `next`: the task
\* body contains none.
StopCalls(next) == 0

\* The task returns: receiver (and whatever it still buffers) is dropped.
Terminate ==
    /\ pc' = "done"
    /\ queue' = <<>>

\* Variant: a task that wraps every error as StartError(reason, id).
Forwarded_wrapped(e) == StartError(e.reason, "http")

\* The value the task hands to err_sender.send for a returned Err(e): e.
Forwarded(e) == e

\* Variant: the return is missing on the path without a sink.
AfterStart_fallthrough(r) ==
    IF r = Ok THEN "recv" ELSE IF err_sender THEN "report" ELSE "recv"

\* Where the task goes when server.start() returned r.
AfterStart(r) ==
    IF r = Ok THEN "recv" ELSE IF err_sender THEN "report" ELSE "done"

\* if let Err(e) = server.start() { if let Some(..) {send}; return; }
start ==
    /\ pc = "start"
    /\ \E r \in {Ok} \cup StartErrs :
        /\ startRes' = r
        /\ pc' = AfterStart(r)
        /\ cur' = IF r # Ok /\ err_sender THEN Forwarded(r) ELSE cur
        /\ dropped' = IF r # Ok /\ ~err_sender THEN dropped + 1 ELSE dropped
        /\ queue' = IF AfterStart(r) = "done" THEN <<>> ELSE queue
        /\ nstop' = nstop + StopCalls(AfterStart(r))
    /\ nstart' = nstart + 1
    /\ UNCHANGED <<senders, handle, pending, waiters, nsent, enqueued, sendOk, sendErr,
                   processed, nfail, envVars, sinkQ, sinkClosed, reported>>

\* Variant: a receiver that takes the newest message.
NextMessage_newest(q) == q[Len(q)]

\* The message receiver.recv() yields.
NextMessage(q) == Head(q)

\* Variant: a receiver that loses the message behind the one it yields.
Remaining_skipping(q) == IF Len(q) > 1 THEN Tail(Tail(q)) ELSE Tail(q)

\* What stays buffered once recv has yielded the oldest message.
Remaining(q) == Tail(q)

\* Variant: a loop that takes the next message while the report of the
\* previous one is still in its hands.
recv_eager ==
    /\ pc \in {"recv", "report"}
    /\ queue # <<>>
    /\ pc' = "process"
    /\ processed' = Append(processed, NextMessage(queue))
    /\ queue' = Remaining(queue)
    /\ nstop' = nstop + StopCalls("process")
    /\ UNCHANGED <<startRes, cur, nfail, nstart, senders, handle, pending, waiters,
                   nsent, enqueued, sendOk, sendErr, envVars, sinkVars>>

\* Some(message) = receiver.recv() => server.process(message) is entered.
recv ==
    /\ pc = "recv"
    /\ queue # <<>>
    /\ pc' = "process"
    /\ processed' = Append(processed, NextMessage(queue))
    /\ queue' = Remaining(queue)
    /\ nstop' = nstop + StopCalls("process")
    /\ UNCHANGED <<startRes, cur, nfail, nstart, senders, handle, pending, waiters,
                   nsent, enqueued, sendOk, sendErr, envVars, sinkVars>>

\* Variant: a loop that breaks on a failed process call.
AfterProcessErr_break == "done"

\* Where the task goes after a process call returned Err and the sink is None.
AfterProcessErr == "recv"

\* server.process(message) returns.
process ==
    /\ pc = "process"
    /\ \E r \in {Ok} \cup ProcErrs :
        IF r = Ok
        THEN /\ pc' = "recv"
             /\ UNCHANGED <<cur, nfail, dropped>>
        ELSE /\ nfail < MaxFail
             /\ nfail' = nfail + 1
             /\ IF err_sender
                THEN /\ pc' = "report"
                     /\ cur' = Forwarded(r)
                     /\ UNCHANGED dropped
                ELSE /\ pc' = AfterProcessErr
                     /\ dropped' = dropped + 1
                     /\ UNCHANGED cur
    /\ queue' = IF pc' = "done" THEN <<>> ELSE queue
    /\ nstop' = nstop + StopCalls(pc')
    /\ UNCHANGED <<startRes, processed, nstart, senders, handle, pending, waiters,
                   nsent, enqueued, sendOk, sendErr, envVars, sinkQ, sinkClosed,
                   reported>>

\* Variant: a report that never waits for room in the sink.
SinkReady_always == TRUE

\* err_sender.send(e) can complete: the sink has room, or its receiver is gone.
SinkReady == sinkClosed \/ Len(sinkQ) < SinkCap

\* Variant: a task that calls start again once its error has been reported.
AfterReport_retry == IF startRes = Ok THEN "recv" ELSE "start"

\* Variant: the return is missing after the start error was reported.
AfterReport_loop == "recv"

\* Where the task goes once err_sender.send(e).await has completed.
AfterReport == IF startRes = Ok THEN "recv" ELSE "done"

\* let _ = err_sender.send(e).await;
report ==
    /\ pc = "report"
    /\ SinkReady
    /\ IF sinkClosed
       THEN /\ dropped' = dropped + 1
            /\ UNCHANGED <<sinkQ, reported>>
       ELSE /\ sinkQ' = Append(sinkQ, cur)
            /\ reported' = Append(reported, cur)
            /\ UNCHANGED dropped
    /\ cur' = NoErr
    /\ pc' = AfterReport
    /\ queue' = IF AfterReport = "done" THEN <<>> ELSE queue
    /\ nstop' = nstop + StopCalls(AfterReport)
    /\ UNCHANGED <<startRes, processed, nfail, nstart, senders, handle, pending,
                   waiters, nsent, enqueued, sendOk, sendErr, envVars, sinkClosed>>

\* Variant: a loop that stops as soon as the senders are gone, whatever is
\* still buffered.
ChannelClosed_undrained == senders = 0

\* Variant: a task that keeps a sender of its own, so recv never yields None.
ChannelClosed_never == senders + 1 = 0

\* receiver.recv() yields None: every sender is dropped and the queue is empty.
ChannelClosed == senders = 0 /\ queue = <<>>

\* else => break
exit ==
    /\ pc = "recv"
    /\ ChannelClosed
    /\ Terminate
    /\ nstop' = nstop + StopCalls("done")
    /\ UNCHANGED <<startRes, cur, processed, nfail, nstart, senders, handle, pending,
                   waiters, nsent, enqueued, sendOk, sendErr, envVars, sinkVars>>

(***************************************************************************)
(* A second service, spawned by the same spawn_server on the same runtime. *)
(* Its server is a healthy one: start and process return Ok(()).  The two  *)
(* tasks share the worker threads of the runtime; process is an ordinary   *)
(* call inside the task, so a call that does not return keeps the worker   *)
(* thread that polled the task.                                            *)
(***************************************************************************)

\* The second service as spawn_server leaves it: task spawned, handle returned.
SpawnedService == [pc |-> "start", queue |-> <<>>, nsent |-> 0, processed |-> <<>>,
                   handle |-> "live"]

\* Two services on a runtime of one or more worker threads.
InitTwo ==
    /\ InitService
    /\ workers \in 1..MaxWorkers
    /\ other = SpawnedService

\* server.process(message) of the first service does not return.
hang ==
    /\ pc = "process"
    /\ pc' = "hung"
    /\ UNCHANGED <<startRes, cur, processed, nfail, nstart, nstop, chanVars, envVars,
                   sinkVars>>

\* Worker threads not held by a process call that does not return.
FreeWorkers == workers - (IF pc = "hung" THEN 1 ELSE 0)

\* The runtime has a worker thread to poll a task with.
CanPoll == FreeWorkers > 0

\* The second task calls server.start(), which returns Ok(()).
startB ==
    /\ other.pc = "start"
    /\ CanPoll
    /\ other' = [other EXCEPT !.pc = "recv"]
    /\ UNCHANGED <<taskVars, chanVars, sinkVars, err_sender, workers>>

\* ServerHandle::send on the handle of the second service; its receiver is
\* alive as long as the handle is, and the queue stays below the capacity.
sendB ==
    /\ other.handle = "live"
    /\ other.nsent < TwoMsgs
    /\ other' = [other EXCEPT !.nsent = @ + 1, !.queue = Append(@, other.nsent + 1)]
    /\ UNCHANGED <<taskVars, chanVars, sinkVars, err_sender, workers>>

\* The handle of the second service goes out of scope.
dropB ==
    /\ other.handle = "live"
    /\ other' = [other EXCEPT !.handle = "dropped"]
    /\ UNCHANGED <<taskVars, chanVars, sinkVars, err_sender, workers>>

\* The second task receives a message and process(message) returns Ok(()).
recvB ==
    /\ other.pc = "recv"
    /\ other.queue # <<>>
    /\ CanPoll
    /\ other' = [other EXCEPT !.queue = Remaining(@),
                              !.processed = Append(@, NextMessage(other.queue))]
    /\ UNCHANGED <<taskVars, chanVars, sinkVars, err_sender, workers>>

\* The second task finds its channel closed and drained: else => break.
exitB ==
    /\ other.pc = "recv"
    /\ other.handle = "dropped"
    /\ other.queue = <<>>
    /\ CanPoll
    /\ other' = [other EXCEPT !.pc = "done"]
    /\ UNCHANGED <<taskVars, chanVars, sinkVars, err_sender, workers>>

\* The steps of the second task.
TaskB == startB \/ recvB \/ exitB

(***************************************************************************)
(* The owner of the error sink (the caller of spawn_server) and the other  *)
(* writers of the shared sink.                                             *)
(***************************************************************************)

\* The owner of the sink takes the oldest report out of it.
sink_recv ==
    /\ sinkQ # <<>>
    /\ sinkQ' = Tail(sinkQ)
    /\ UNCHANGED <<taskVars, chanVars, envVars, sinkClosed, reported, dropped>>

\* The owner of the sink drops its receiver.
sink_close ==
    /\ err_sender
    /\ ~sinkClosed
    /\ sinkClosed' = TRUE
    /\ sinkQ' = <<>>
    /\ UNCHANGED <<taskVars, chanVars, envVars, reported, dropped>>

\* Another service sharing the sink reports an error of its own.
sink_other ==
    /\ err_sender
    /\ ~sinkClosed
    /\ Len(sinkQ) < SinkCap
    /\ sinkQ' = Append(sinkQ, OtherReport)
    /\ UNCHANGED <<taskVars, chanVars, envVars, sinkClosed, reported, dropped>>

\* The steps of the spawned task.
Task == start \/ recv \/ process \/ report \/ exit

Next ==
    \/ \E p \in Producers : send(p)
    \/ \E p \in Producers : send_sync(p)
    \/ \E p \in Producers : send_resume(p)
    \/ \E p \in Producers : send_closed(p)
    \/ \E p, q \in Producers : clone_handle(p, q)
    \/ \E p \in Producers : drop_handle(p)
    \/ start
    \/ recv
    \/ process
    \/ report
    \/ exit
    \/ sink_recv
    \/ sink_close
    \/ sink_other

Spec == Init /\ [][Next]_vars

\* The runtime keeps polling a spawned task that can make progress, and wakes
\* a suspended sender once a permit is free or the channel is closed.
FairSpec ==
    /\ Spec
    /\ WF_vars(Task)
    /\ \A p \in Producers : WF_vars(send_resume(p) \/ send_closed(p))

\* Two services side by side, a few messages each; a process call of the
\* first one may never return.
NextTwo ==
    \/ \E p \in Producers : nsent < TwoMsgs /\ send(p)
    \/ \E p \in Producers : drop_handle(p)
    \/ start
    \/ recv
    \/ process
    \/ report
    \/ exit
    \/ hang
    \/ sink_recv
    \/ startB
    \/ sendB
    \/ dropB
    \/ recvB
    \/ exitB

TwoSpec == InitTwo /\ [][NextTwo]_vars

(***************************************************************************)
(* Properties.                                                             *)
(***************************************************************************)

\* C1: the messages passed to process are, in every reachable state, a prefix
\* of the messages in the order they entered the channel, and while the
\* receiver lives the rest of that order is exactly what the channel buffers:
\* nothing is skipped, duplicated, reordered or invented.
C1_Ordering ==
    /\ IsPrefix(processed, enqueued)
    /\ receiverAlive => enqueued = processed \o queue

\* Several messages were processed after a successful start while others are
\* still buffered and every producer has been given a handle.
C1_Witness ==
    /\ startRes = Ok
    /\ Len(processed) >= 2
    /\ Len(queue) >= 2
    /\ \A p \in Producers : handle[p] # "none"

\* C2: process has been invoked (or is running) only if start returned Ok
\* before; while start is pending or after it failed nothing was processed,
\* also when messages were buffered before start returned.
C2_ProcessAfterStart ==
    /\ (processed # <<>> \/ pc = "process") => startRes = Ok
    /\ pc = "start" => startRes = NoErr /\ processed = <<>> /\ queue = enqueued

\* start returned Ok and the second buffered message is being processed.
C2_Witness ==
    /\ startRes = Ok
    /\ pc = "process"
    /\ Len(processed) = 2

\* C3: once start returned Err, process is never invoked, the loop is never
\* entered, and of the one report the task makes at most one reaches the
\* sink; when the task has ended and the sink exists exactly one report was
\* made, and it reached the sink unless the sink was closed.
C3_StartFailure ==
    startRes \in StartErrs =>
        /\ processed = <<>>
        /\ pc \in {"report", "done"}
        /\ nfail = 0
        /\ Len(reported) + dropped <= 1
        /\ (pc = "done" /\ err_sender) =>
               /\ Len(reported) + dropped = 1
               /\ (~sinkClosed => reported = <<startRes>>)
        /\ pc = "done" => queue = <<>>

\* Start failed, its report reached the sink, the task ended, and messages
\* whose send returned Ok were discarded unprocessed.
C3_Witness ==
    /\ startRes \in StartErrs
    /\ pc = "done"
    /\ reported = <<startRes>>
    /\ sendOk # {}
    /\ processed = <<>>

\* The task is suspended in err_sender.send: the sink is full and not closed.
SinkBlocked == pc = "report" /\ ~sinkClosed /\ Len(sinkQ) >= SinkCap

\* Reports the task owes for failed process calls: made, discarded or in hand.
ProcessReports ==
    Len(reported) + dropped + (IF pc = "report" THEN 1 ELSE 0)

\* State and step parts of C4.
C4_Accounting ==
    startRes = Ok =>
        /\ nfail = ProcessReports
        /\ (~err_sender => reported = <<>> /\ dropped = nfail)
        /\ (nfail > 0 /\ (senders > 0 \/ queue # <<>>) => pc # "done")
        /\ (pc = "recv" /\ queue # <<>> => ENABLED recv)

C4_Steps ==
    /\ (pc = "process" /\ pc' # "process") =>
           /\ pc' = IF nfail' # nfail /\ err_sender THEN "report" ELSE "recv"
           /\ reported' = reported /\ sinkQ' = sinkQ
           /\ (nfail' = nfail => dropped' = dropped /\ cur' = cur)
    /\ (pc = "report" /\ startRes = Ok /\ pc' # "report") =>
           /\ pc' = "recv"
           /\ queue' = queue
           /\ IF sinkClosed
              THEN reported' = reported /\ dropped' = dropped + 1
              ELSE reported' = Append(reported, cur) /\ dropped' = dropped
                   /\ sinkQ' = Append(sinkQ, cur)
    /\ (pc = "recv" /\ pc' = "process") =>
           processed' = Append(processed, Head(queue))

C5_Bounded ==
    /\ Len(queue) <= Capacity
    /\ \A p \in Producers :
           handle[p] \in {"send", "send_sync"} =>
               /\ pending[p] \notin (sendOk \cup sendErr)
               /\ pending[p] \notin Range(enqueued)

C5_Steps ==
    (Len(queue) = Capacity /\ receiverAlive) =>
        /\ sendOk' = sendOk
        /\ sendErr' = sendErr
        /\ enqueued' = enqueued
        /\ nsent' # nsent =>
               \E p \in Producers : handle'[p] \in {"send", "send_sync"}
                                    /\ pending'[p] = nsent'

\* C5: the channel never buffers more than Capacity messages; while it holds
\* Capacity messages and the receiver lives no send completes (no message is
\* enqueued, no result returned), and a suspended send has neither enqueued
\* its message nor returned.
C5_Backpressure == [](C5_Bounded) /\ [][C5_Steps]_vars

\* The channel is full, the receiver lives and a send is suspended on it.
C5_Witness ==
    /\ Len(queue) = Capacity
    /\ receiverAlive
    /\ \E p \in Producers : handle[p] = "send" /\ pending[p] = Capacity + 1

C6_Steps ==
    (startRes = Ok /\ senders = 0) =>
        /\ senders' = 0
        /\ (pc = "recv" /\ queue = <<>> /\ pc' # pc) =>
               pc' = "done" /\ reported' = reported /\ dropped' = dropped /\ cur' = cur
        /\ (reported' # reported \/ dropped' # dropped) =>
               nfail' = ProcessReports' /\ nfail' > 0
        /\ pc' = "done" => pc \in {"recv", "done"}

C7_Alive ==
    /\ (startRes = Ok /\ senders > 0) => pc # "done"
    /\ pc = "done" => startRes \in StartErrs \/ (startRes = Ok /\ senders = 0)

C7_Steps ==
    (pc # "done" /\ pc' = "done") =>
        \/ startRes' \in StartErrs
        \/ (startRes = Ok /\ pc = "recv" /\ senders = 0 /\ queue = <<>>)

\* C7: after a successful start the task has not ended while a sender exists;
\* the task ends only by a failed start or from recv on a closed, drained
\* channel, never from a failed process call or a failed sink send.
C7_TerminatesOnlyWhen == [](C7_Alive) /\ [][C7_Steps]_vars

\* After a successful start, a failed process call and a discarded report,
\* the task is still in its loop.
C7_Witness ==
    /\ startRes = Ok
    /\ nfail > 0
    /\ dropped > 0
    /\ senders > 0
    /\ pc = "recv"

\* State and step parts of C8.
C8_Results ==
    /\ sendOk = Range(enqueued)
    /\ sendErr \cap Range(enqueued) = {}
    /\ sendErr \cap Range(processed) = {}
    /\ sendOk \cup sendErr \subseteq 1..nsent
    /\ startRes = Ok => sendErr = {}

C8_Steps ==
    /\ sendErr' # sendErr => ~receiverAlive
    /\ sendOk' # sendOk => receiverAlive
    /\ (nsent' # nsent /\ receiverAlive /\ HasCapacity /\ waiters = <<>>) =>
           nsent' \in sendOk'
    /\ (nsent' # nsent /\ ~receiverAlive) => nsent' \in sendErr'

\* C8: a send returns a channel error only once the task has ended, and its
\* message is then never enqueued or processed; a send that returns while the
\* task lives returns Ok, whatever start or process returned; after a
\* successful start no send returns an error.
C8_SendResult == [](C8_Results) /\ [][C8_Steps]_vars

\* Sends returned Ok although start failed, and a later send returned the
\* channel error after the task had ended.
C8_Witness ==
    /\ startRes \in StartErrs
    /\ sendOk # {}
    /\ sendErr # {}

C9_Steps ==
    /\ (pc = "report" /\ ~SinkReady) =>
           pc' = "report" /\ cur' = cur /\ reported' = reported /\ dropped' = dropped
    /\ (pc = "report" /\ sinkClosed /\ pc' # "report") =>
           /\ dropped' = dropped + 1
           /\ reported' = reported /\ sinkQ' = sinkQ
           /\ pc' = IF startRes = Ok THEN "recv" ELSE "done"

C9_Waits == pc = "report" => (ENABLED report <=> (sinkClosed \/ Len(sinkQ) < SinkCap))

C11_NoDuplicate ==
    \A i, j \in 1..Len(processed) : processed[i] = processed[j] => i = j

C11_Drained ==
    /\ IsPrefix(processed, enqueued)
    /\ C11_NoDuplicate
    /\ (pc = "done" /\ startRes = Ok) => processed = enqueued

\* C11: once start has succeeded, every message whose send returned success
\* is eventually passed to process, exactly once, the messages still buffered
\* when the last handle was dropped included: the task has drained the queue
\* when it exits. Every process call returns; a sink send that has not
\* completed is the task waiting on a full sink. startRes never changes once
\* start has returned, so "after a successful start, always eventually
\* delivered" is "infinitely often: start not successful, or delivered".
C11_AllDelivered ==
    /\ [](C11_Drained)
    /\ []<>(startRes # Ok \/ processed = enqueued \/ SinkBlocked)

\* The last handle is gone and the task is still working through the buffer.
C11_Witness ==
    /\ startRes = Ok
    /\ senders = 0
    /\ pc = "process"
    /\ queue # <<>>
    /\ Len(processed) >= 2

\* The caller holds the handle from the first state on; as long as start has
\* not been called the task sits in front of it and the channel is open.
C12_Returned ==
    /\ handle[1] # "none"
    /\ nstart = 0 => (pc = "start" /\ startRes = NoErr /\ receiverAlive)

\* The return of start, failed or not, takes nothing back from the caller.
C12_Steps == nstart' # nstart => UNCHANGED <<handle, senders, sendOk, sendErr, enqueued>>

\* C12: spawn_server hands the handle to its caller with success without
\* waiting for start: the caller can hold the handle and have messages
\* accepted while start has not run, and the success stands when start
\* fails afterwards.
C12_SpawnDoesNotWait == [](C12_Returned) /\ [][C12_Steps]_vars

\* Messages are accepted on the returned handle before start has been called.
C12_Witness ==
    /\ nstart = 0
    /\ handle[1] = "live"
    /\ Len(enqueued) >= 2
    /\ 2 \in sendOk

\* Handles that keep the channel open, and the calls suspended in send_sync.
C13_Holders == {p \in Producers : handle[p] \in {"live", "send", "send_sync"}}

C13_InSendSync == {p \in Producers : handle[p] = "send_sync"}

\* The only endpoints besides the handles are the clones of the send_sync
\* calls in progress: none is left once a call has returned, and the channel
\* has no sender as soon as no handle is left.
C13_Endpoints ==
    /\ senders = Cardinality(C13_Holders) + Cardinality(C13_InSendSync)
    /\ C13_Holders = {} => senders = 0
    /\ \A p \in Producers : ENABLED send(p) <=> ENABLED send_sync(p)

\* What a call does with its message depends on the channel only, not on
\* which of the two entry points was called: rejected when the receiver is
\* gone, enqueued at the tail when a permit is free and nobody waits,
\* otherwise the caller joins the waiters and the queue stays as it is.
C13_CallSteps ==
    nsent' # nsent =>
        /\ nsent' = nsent + 1
        /\ IF ~receiverAlive
           THEN /\ sendErr' = sendErr \cup {nsent'}
                /\ UNCHANGED <<queue, enqueued, sendOk, waiters, senders>>
           ELSE IF HasCapacity /\ waiters = <<>>
           THEN /\ queue' = Append(queue, nsent')
                /\ enqueued' = Append(enqueued, nsent')
                /\ sendOk' = sendOk \cup {nsent'}
                /\ UNCHANGED <<sendErr, waiters, senders, handle>>
           ELSE /\ \E p \in Producers :
                    /\ handle[p] = "live"
                    /\ handle'[p] \in {"send", "send_sync"}
                    /\ waiters' = Append(waiters, p)
                    /\ pending'[p] = nsent'
                /\ UNCHANGED <<queue, enqueued, sendOk, sendErr>>

\* A suspended call, of either kind, returns in the order of the waiters with
\* its message at the tail of the queue, or with the channel error.
C13_ReturnSteps ==
    \A p \in Producers :
        (handle[p] \in {"send", "send_sync"} /\ handle'[p] # handle[p]) =>
            /\ handle'[p] = "live"
            /\ nsent' = nsent
            /\ \/ /\ receiverAlive /\ Head(waiters) = p /\ Len(queue) < Capacity
                  /\ queue' = Append(queue, pending[p])
                  /\ pending[p] \in sendOk'
               \/ /\ ~receiverAlive
                  /\ queue' = queue
                  /\ pending[p] \in sendErr'

C15_Suspended(p) == handle[p] \in {"send", "send_sync"}

C15_Steps ==
    \A p \in Producers :
        (C15_Suspended(p) /\ ~C15_Suspended(p)') =>
            IF receiverAlive
            THEN HasCapacity /\ pending[p] \in sendOk' /\ pending[p] \notin sendErr'
            ELSE pending[p] \in sendErr' /\ pending[p] \notin sendOk'

C16_OneAtATime ==
    /\ pc \in {"start", "recv", "process", "report", "done"}
    /\ cur # NoErr <=> pc = "report"
    /\ processed # <<>> => nstart = 1 /\ startRes = Ok

\* start returns only at the task's start position; a message leaves the
\* queue for process only at the task's recv position, that is after the
\* previous process call has returned and its error, if any, has been handed
\* to the sink or dropped; and such a step is a step of the task alone.
C16_Steps ==
    /\ nstart' # nstart => pc = "start" /\ UNCHANGED <<processed, handle, nsent>>
    /\ processed' # processed =>
        /\ pc = "recv" /\ cur = NoErr /\ pc' = "process"
        /\ processed' = Append(processed, Head(queue))
        /\ queue' = Tail(queue)
        /\ UNCHANGED <<handle, nsent, nstart, sinkVars>>
    /\ (pc = "process" /\ pc' # "process") =>
        /\ pc' \in {"recv", "report"}
        /\ UNCHANGED <<processed, queue, handle, nsent>>
    /\ (pc \in {"process", "report"} /\ receiverAlive') => Len(queue') >= Len(queue)

\* C16: only the supervising task calls start and process, one call at a
\* time: it takes the next message only after the previous process call has
\* returned and its error report has been handed to the sink or dropped.
C16_Sequential == [](C16_OneAtATime) /\ [][C16_Steps]_vars

\* The task waits on the full sink with the report of a failed call while the
\* next messages stay in the queue.
C16_Witness ==
    /\ SinkBlocked
    /\ startRes = Ok
    /\ cur \in ProcErrs
    /\ Len(queue) >= 2

\* start has been called once as soon as the task has left its start
\* position, and not before.
C17_AtMostOnce ==
    /\ nstart <= 1
    /\ nstart = 1 <=> pc # "start"
    /\ nstart = 0 <=> startRes = NoErr

\* The task never comes back to its start position, neither after a failed
\* start nor from the loop, and the result of start stays what it was.
C17_Steps ==
    /\ pc # "start" => (pc' # "start" /\ nstart' = nstart /\ startRes' = startRes)
    /\ nstart' # nstart => (nstart' = nstart + 1 /\ startRes' # NoErr)

\* C17: start is invoked at most once per service, and exactly once when the
\* task is scheduled fairly; it is not invoked again after it has failed nor
\* after the loop has begun.
C17_StartOnce ==
    /\ [](C17_AtMostOnce)
    /\ [][C17_Steps]_vars
    /\ <>[](nstart = 1)

\* start has failed, the failure has been reported and the task has ended.
C17_Witness ==
    /\ nstart = 1
    /\ startRes \in StartErrs
    /\ pc = "done"
    /\ reported # <<>>

\* C18: the supervising task never invokes stop: the number of stop calls is
\* zero in every reachable state, whichever way the task has ended.
C18_NeverStops == nstop = 0

\* The task has started the service, processed messages and returned.
C18_Witness ==
    /\ pc = "done"
    /\ nstart = 1
    /\ startRes = Ok
    /\ Len(processed) >= 2

\* A step of a send or send_sync call: the call itself, or the return of a
\* suspended one.
C19_CallStep ==
    \/ nsent' # nsent
    \/ \E p \in Producers : handle[p] \in {"send", "send_sync"} /\ handle'[p] = "live"

C19_Steps ==
    /\ C19_CallStep => UNCHANGED <<taskVars, sinkVars, err_sender>>
    /\ sendErr' # sendErr => UNCHANGED <<queue, enqueued, sendOk>>

\* C19: a step of send or send_sync changes the channel only: the service,
\* the history of start and process calls and the error sink stay as they
\* are, and a send that fails with the channel error leaves the queue as it
\* is, too.
C19_ChannelOnly == [][C19_Steps]_vars

\* A send has failed with the channel error after earlier ones were accepted,
\* with the report of the failed start still in the sink.
C19_Witness ==
    /\ sendErr # {}
    /\ sendOk # {}
    /\ nstart = 1
    /\ reported # <<>>
    /\ sinkQ # <<>>

\* C14: with two services on the runtime, a process call of the first that
\* never returns blocks the first task only: the second task can still be
\* polled, so it starts, processes every message enqueued to it and ends once
\* its handle is dropped and its queue drained.
C14_Isolation ==
    pc = "hung" =>
        /\ other.pc = "start" => ENABLED startB
        /\ (other.pc = "recv" /\ other.queue # <<>>) => ENABLED recvB
        /\ (other.pc = "recv" /\ other.queue = <<>> /\ other.handle = "dropped")
               => ENABLED exitB

====
